---- MODULE Spec2Model ----
(***************************************************************************)
(* ACT Expert RAG tools: build_embeddings.py (corpus parser),              *)
(* build_tensors.py (KnowledgeGraphBuilder), build_index.py and            *)
(* query_rag.py (ACTKnowledgeBase queries).                                *)
(*                                                                         *)
(* Strings are abstracted as follows.  A document id is the sequence of    *)
(* its hyphen-separated segments (<<"def","a">> is "def-a").  A corpus     *)
(* line is a record: whether it is indented, the marker it carries and its *)
(* payload.  Real-valued scores are exact rationals <<num, den>>.          *)
(***************************************************************************)
EXTENDS Integers, Sequences, FiniteSets, TLC

VARIABLES
    metadata,    \* metadata.json / ACTKnowledgeBase.metadata: list of document dicts
    distances,   \* FAISS L2 distance of the query embedding to vector i
    scores,      \* bm25_index.get_scores(query_tokens)[i]
    call,        \* the last query call: its arguments, locals and return value
    corpus,      \* the corpus directory: list of files, each a list of sections
    documents,   \* return value of parse_markdown_corpus
    log,         \* what the build printed
    nodes,       \* KnowledgeGraphBuilder.nodes
    edges,       \* KnowledgeGraphBuilder.edges
    graph,       \* return value of build_graph
    saved,       \* category_graph.pt and graph_stats.json
    parse_calls, \* how often parse_corpus ran on the builder
    index,       \* build_index.py: the embeddings array and the FAISS index built
    session,     \* query_rag.py main: the settings of the interactive loop
    pc           \* where the running script is

vars == <<metadata, distances, scores, call, corpus, documents, log, nodes,
          edges, graph, saved, parse_calls, index, session, pc>>

buildData == <<corpus, documents, log, nodes, edges, graph, saved, parse_calls>>

\* What the build and query steps leave alone.
otherData == <<index, session>>

(***************************************************************************)
(* Bounds.                                                                 *)
(***************************************************************************)
MaxDocs == 3
MaxDist == 2
MaxScore == 1
MaxK == 4
AlphaDen == 2
MaxLines == 3
MaxParseCalls == 2

(***************************************************************************)
(* Generic helpers.                                                        *)
(***************************************************************************)
Range(s) == {s[i] : i \in DOMAIN s}

Perms(S) == {p \in [1..Cardinality(S) -> S] : \A i, j \in DOMAIN p : p[i] = p[j] => i = j}

Min2(a, b) == IF a <= b THEN a ELSE b

Max2(a, b) == IF a >= b THEN a ELSE b

SetMin(S) == CHOOSE x \in S : \A y \in S : x <= y
SetMax(S) == CHOOSE x \in S : \A y \in S : y <= x

None == "None"

\* The position a possibly negative 0-based Python index names in a list.
PyPos(list, i) == IF i >= 0 THEN i + 1 ELSE Len(list) + i + 1

\* Python list indexing with a possibly negative 0-based index.
PyGet(list, i) == list[PyPos(list, i)]

\* Python seq[-k:]: -0 is 0, so seq[-0:] is the whole list; for k < 0 it is
\* seq[|k|:], the list without its first |k| elements.
PySliceLast(seq, k) ==
    IF k = 0 \/ k >= Len(seq) THEN seq
    ELSE IF k > 0 THEN SubSeq(seq, Len(seq) - k + 1, Len(seq))
    ELSE SubSeq(seq, Min2(0 - k, Len(seq)) + 1, Len(seq))

\* Python seq[:k]: for k < 0 the list without its last |k| elements.
PySliceFirst(seq, k) ==
    IF k >= 0 THEN SubSeq(seq, 1, Min2(k, Len(seq)))
    ELSE SubSeq(seq, 1, Max2(0, Len(seq) + k))

\* Python seq[::-1].
Reverse(seq) == [i \in 1..Len(seq) |-> seq[Len(seq) - i + 1]]

(***************************************************************************)
(* Document ids and their lexical (str) order.                             *)
(***************************************************************************)
DefA == <<"def", "a">>
DefFunctor001 == <<"def", "functor", "001">>
ExampleE == <<"example", "e">>
FixF == <<"fix", "f">>
PatternB == <<"pattern", "b">>
PatternCompose001 == <<"pattern", "compose", "001">>
TestPatternC == <<"test", "pattern", "c">>

\* Every id of the model, in ascending str order.
IdOrder ==
    <<DefA, DefFunctor001, ExampleE, FixF, PatternB, PatternCompose001,
      TestPatternC>>

IdPos(id) == CHOOSE i \in DOMAIN IdOrder : IdOrder[i] = id

\* Python str comparison a < b.
IdLt(a, b) == IdPos(a) < IdPos(b)

(***************************************************************************)
(* Rationals.                                                              *)
(***************************************************************************)
RLt(a, b) == a[1] * b[2] < b[1] * a[2]
RLe(a, b) == a[1] * b[2] <= b[1] * a[2]
REq(a, b) == a[1] * b[2] = b[1] * a[2]
Zero == <<0, 1>>
One == <<1, 1>>
Half == <<1, 2>>

(***************************************************************************)
(* query_rag.py: ACTKnowledgeBase.                                         *)
(***************************************************************************)
\* The ids a loaded knowledge base may hold.
QueryIds == {DefA, FixF, PatternB}

\* A metadata.json entry as CorpusDocument.to_dict writes it.
to_dict(doc) ==
    [id |-> doc.doc_id, title |-> doc.title, tags |-> doc.tags,
     type |-> doc.doc_type, content |-> doc.content,
     source_file |-> doc.source_file]

\* len(self.metadata) == faiss_index.ntotal: build_index.py adds one vector
\* per metadata entry.
NumDocs == Len(metadata)

\* The distance FAISS reports in a slot that has no neighbour (label -1):
\* larger than any real distance.
FLT_MAX == MaxDist + 1

\* faiss_index.search(query_embedding, k) on the flat L2 index: k slots, the
\* stored vectors by ascending distance (equal distances in an unspecified
\* order), then label -1 for the slots that have no neighbour.
FaissSearch(k) ==
    { [j \in 1..k |->
          IF j <= NumDocs
          THEN [idx |-> p[j] - 1, dist |-> distances[p[j]]]
          ELSE [idx |-> -1, dist |-> FLT_MAX]] :
      p \in {q \in Perms(1..NumDocs) :
               \A i, j \in 1..NumDocs : i < j => distances[q[i]] <= distances[q[j]]} }

\* doc = self.metadata[...] with the .copy() left out: the result is the
\* very dict of self.metadata.
dict_alias(pos) == [doc |-> metadata[pos], obj |-> pos]

\* doc = self.metadata[...].copy(): a new dict with the items of the entry at
\* position pos.  obj names the dict object: 0 is an object of its own, i
\* would be the dict that is entry i of self.metadata.
dict_copy(pos) == [doc |-> metadata[pos], obj |-> 0]

\* doc["score"] = ...; doc["search_type"] = ... on the dict d.
WithScore(d, score, search_type) ==
    [doc |-> d.doc, obj |-> d.obj, score |-> score, search_type |-> search_type]

\* self.metadata after a query has set the items of its result dicts: an
\* item set on a dict that is an entry of the list shows in that entry.
SetItems(list, results) ==
    [i \in DOMAIN list |->
        LET hits == {j \in DOMAIN results : results[j].obj = i}
        IN  IF hits = {} THEN list[i]
            ELSE [score |-> results[SetMax(hits)].score,
                  search_type |-> results[SetMax(hits)].search_type] @@ list[i]]

\* query_semantic: one result per slot of the FAISS answer.
SemanticOf(found) ==
    [j \in 1..Len(found) |->
        WithScore(dict_copy(PyPos(metadata, found[j].idx)), found[j].dist,
                  "semantic")]

\* The possible return values of query_semantic(query, top_k).
query_semantic(top_k) == {SemanticOf(found) : found \in FaissSearch(top_k)}

\* np.argsort(scores): the 0-based indices by ascending score (the default
\* sort is not stable: equal scores in an unspecified order).
ArgSort ==
    { [j \in 1..NumDocs |-> p[j] - 1] :
      p \in {q \in Perms(1..NumDocs) :
               \A i, j \in 1..NumDocs : i < j => scores[q[i]] <= scores[q[j]]} }

\* query_keyword for one argsort outcome: argsort[-top_k:][::-1].
KeywordOf(sorted, top_k) ==
    LET top_indices == Reverse(PySliceLast(sorted, top_k))
    IN  [j \in 1..Len(top_indices) |->
            WithScore(dict_copy(PyPos(metadata, top_indices[j])),
                      scores[top_indices[j] + 1], "keyword")]

\* The possible return values of query_keyword(query, top_k).
query_keyword(top_k) == {KeywordOf(sorted, top_k) : sorted \in ArgSort}

\* {doc["id"]: doc["score"] for doc in results}: a later entry replaces an
\* earlier one with the same id.
ScoreDict(results) ==
    [id \in {results[i].doc.id : i \in DOMAIN results} |->
        LET last == CHOOSE i \in DOMAIN results :
                        /\ results[i].doc.id = id
                        /\ \A j \in DOMAIN results : results[j].doc.id = id => j <= i
        IN  results[last].score]

\* normalize with the shift by min_val forgotten.
normalize_unshifted(sc) ==
    LET values == Range(sc)
        min_val == SetMin(values)
        max_val == SetMax(values)
    IN  IF max_val = min_val
        THEN [k \in DOMAIN sc |-> Half]
        ELSE [k \in DOMAIN sc |-> <<sc[k], max_val - min_val>>]

\* query_hybrid.normalize (a non-empty dict; min() of an empty one raises).
normalize(sc) ==
    LET values == Range(sc)
        min_val == SetMin(values)
        max_val == SetMax(values)
    IN  IF max_val = min_val
        THEN [k \in DOMAIN sc |-> Half]
        ELSE [k \in DOMAIN sc |-> <<sc[k] - min_val, max_val - min_val>>]

\* dict.get(doc_id, 0.0)
GetOrZero(d, k) == IF k \in DOMAIN d THEN d[k] ELSE Zero

\* alpha * sem_score + (1 - alpha) * kw_score
Combine(alpha, sem_score, kw_score) ==
    << alpha[1] * sem_score[1] * kw_score[2]
         + (alpha[2] - alpha[1]) * kw_score[1] * sem_score[2],
       alpha[2] * sem_score[2] * kw_score[2] >>

\* sorted(keys, key=..., reverse=True): a stable sort, so keys with equal
\* score keep the order they are iterated in.
RECURSIVE SortedDesc(_, _)
SortedDesc(keys, key) ==
    IF keys = <<>> THEN <<>>
    ELSE LET n == Len(keys)
             x == keys[n]
             front == SortedDesc(SubSeq(keys, 1, n - 1), key)
             \* x goes after every earlier key whose score is >= its own
             at == Cardinality({i \in DOMAIN front : RLe(key[x], key[front[i]])})
         IN  SubSeq(front, 1, at) \o <<x>> \o SubSeq(front, at + 1, Len(front))

\* next((d for d in self.metadata if d["id"] == doc_id), None): the position
\* of the first entry with that id (every id of a score dict is an entry's).
FirstWithId(doc_id) == SetMin({i \in DOMAIN metadata : metadata[i].id = doc_id})

\* query_hybrid with the sort by combined score left out.
query_hybrid_unsorted(top_k, alpha, order, semantic_norm, keyword_norm) ==
    LET combined_scores ==
            [doc_id \in Range(order) |->
                Combine(alpha, GetOrZero(semantic_norm, doc_id),
                               GetOrZero(keyword_norm, doc_id))]
        top_doc_ids == PySliceFirst(order, top_k)
    IN  [j \in 1..Len(top_doc_ids) |->
            [semantic_score |-> GetOrZero(semantic_norm, top_doc_ids[j]),
             keyword_score |-> GetOrZero(keyword_norm, top_doc_ids[j])]
            @@ WithScore(dict_copy(FirstWithId(top_doc_ids[j])),
                         combined_scores[top_doc_ids[j]], "hybrid")]

\* query_hybrid(query, top_k, alpha) from the normalized score dicts on:
\* order is the iteration order of the set all_doc_ids (str hashes are
\* salted per process, so it is any order).
query_hybrid(top_k, alpha, order, semantic_norm, keyword_norm) ==
    LET combined_scores ==
            [doc_id \in Range(order) |->
                Combine(alpha, GetOrZero(semantic_norm, doc_id),
                               GetOrZero(keyword_norm, doc_id))]
        top_doc_ids == PySliceFirst(SortedDesc(order, combined_scores), top_k)
    IN  [j \in 1..Len(top_doc_ids) |->
            [semantic_score |-> GetOrZero(semantic_norm, top_doc_ids[j]),
             keyword_score |-> GetOrZero(keyword_norm, top_doc_ids[j])]
            @@ WithScore(dict_copy(FirstWithId(top_doc_ids[j])),
                         combined_scores[top_doc_ids[j]], "hybrid")]

\* No call made yet; the frame of a call: its arguments, the exception it
\* raised (None: it returned), its result list and query_hybrid's locals.
NoCall ==
    [op |-> "none", top_k |-> 0, alpha |-> Zero, encode |-> "not_called",
     raised |-> None, results |-> <<>>,
     semantic_scores |-> <<>>, keyword_scores |-> <<>>,
     semantic_norm |-> <<>>, keyword_norm |-> <<>>]

\* The outcome of a query method: the frame it leaves and self.metadata
\* after it.
\* encode says what self.model.encode did in the call: "not_called",
\* "returned" or "raised".
Raised(op, top_k, alpha, exception) ==
    [call |-> [NoCall EXCEPT !.op = op, !.top_k = top_k, !.alpha = alpha,
                             !.encode = IF exception = "EncodeError" THEN "raised"
                                        ELSE IF exception = "AssertionError"
                                        THEN "returned" ELSE "not_called",
                             !.raised = exception],
     metadata |-> metadata]

Returned(op, top_k, results) ==
    [call |-> [NoCall EXCEPT !.op = op, !.top_k = top_k,
                             !.encode = IF op = "keyword"
                                        THEN "not_called" ELSE "returned",
                             !.results = results],
     metadata |-> SetItems(metadata, results)]

\* query_semantic(query, top_k): self.model.encode may raise (the embedder is
\* a model call), and the exception is not handled; faiss_index.search
\* asserts k > 0.
semantic_outcomes(top_k) ==
    {Raised("semantic", top_k, Zero, "EncodeError")}
    \cup (IF top_k <= 0
          THEN {Raised("semantic", top_k, Zero, "AssertionError")}
          ELSE {Returned("semantic", top_k, results) :
                   results \in query_semantic(top_k)})

\* query_keyword(query, top_k)
keyword_outcomes(top_k) ==
    {Returned("keyword", top_k, results) : results \in query_keyword(top_k)}

\* One sub-search of query_hybrid: the score dict made of its results, and
\* self.metadata after it.
SubSearch(results, before) ==
    [scores |-> ScoreDict(results), metadata |-> SetItems(before, results)]

\* query_hybrid from the score dicts on, for one iteration order of
\* all_doc_ids.
HybridReturned(top_k, alpha, order, sem, kw, semantic_norm, keyword_norm) ==
    LET results == query_hybrid(top_k, alpha, order, semantic_norm, keyword_norm)
    IN  [call |-> [op |-> "hybrid", top_k |-> top_k, alpha |-> alpha,
                   encode |-> "returned", raised |-> None, results |-> results,
                   semantic_scores |-> sem.scores,
                   keyword_scores |-> kw.scores,
                   semantic_norm |-> semantic_norm,
                   keyword_norm |-> keyword_norm],
         metadata |-> SetItems(kw.metadata, results)]

\* query_hybrid(query, top_k, alpha) for top_k in top_ks and alpha in alphas:
\* both sub-searches run over all len(self.metadata) documents; the
\* embedder's exception comes out of the semantic sub-search.
hybrid_outcomes(top_ks, alphas) ==
    {Raised("hybrid", top_k, alpha, "EncodeError") :
        top_k \in top_ks, alpha \in alphas}
    \cup UNION UNION UNION
      {{{{HybridReturned(top_k, alpha, order, sem, kw, semantic_norm, keyword_norm) :
             top_k \in top_ks, alpha \in alphas,
             order \in Perms(DOMAIN semantic_norm \cup DOMAIN keyword_norm)} :
          semantic_norm \in {normalize(sem.scores)},
          keyword_norm \in {normalize(kw.scores)}} :
        kw \in {SubSearch(r, sem.metadata) : r \in query_keyword(NumDocs)}} :
       sem \in {SubSearch(r, metadata) : r \in query_semantic(NumDocs)}}

\* The values of alpha the model calls query_hybrid with.
Alphas == {<<a, AlphaDen>> : a \in 0..AlphaDen}

QuerySemantic ==
    /\ pc = "loaded"
    /\ pc' = "answered"
    /\ \E top_k \in 1..MaxK : \E o \in semantic_outcomes(top_k) :
          /\ call' = o.call
          /\ metadata' = o.metadata
    /\ UNCHANGED <<distances, scores>>
    /\ UNCHANGED buildData
    /\ UNCHANGED otherData

QueryKeyword ==
    /\ pc = "loaded"
    /\ pc' = "answered"
    /\ \E top_k \in 0..MaxK : \E o \in keyword_outcomes(top_k) :
          /\ call' = o.call
          /\ metadata' = o.metadata
    /\ UNCHANGED <<distances, scores>>
    /\ UNCHANGED buildData
    /\ UNCHANGED otherData

QueryHybrid ==
    /\ pc = "loaded"
    /\ pc' = "answered"
    /\ \E o \in hybrid_outcomes(0..MaxK, Alphas) :
          /\ call' = o.call
          /\ metadata' = o.metadata
    /\ UNCHANGED <<distances, scores>>
    /\ UNCHANGED buildData
    /\ UNCHANGED otherData

\* The caller is done with the results (main prints them; the interactive
\* loop then reads the next query).
Return ==
    /\ pc = "answered"
    /\ pc' = "loaded"
    /\ call' = NoCall
    /\ UNCHANGED <<metadata, distances, scores>>
    /\ UNCHANGED buildData
    /\ UNCHANGED otherData

\* A loaded knowledge base: the documents of a built index, the query's
\* distance to each vector and its BM25 score against each document.
QueryDoc(id, i) ==
    to_dict([doc_id |-> id, title |-> i, tags |-> <<>>, doc_type |-> "definition",
             content |-> <<>>, source_file |-> i])

BuildIdle ==
    /\ corpus = <<>>
    /\ documents = <<>>
    /\ log = <<>>
    /\ nodes = <<>>
    /\ edges = <<>>
    /\ graph = <<>>
    /\ saved = <<>>
    /\ parse_calls = 0
    /\ index = <<>>
    /\ session = <<>>
    /\ pc = "loaded"

\* The id lists of the knowledge bases: up to MaxDocs distinct ids in
\* ascending or descending order (the searches see ids only through their
\* positions and scores, which range over every assignment), and lists that
\* hold an id twice (parse_markdown_corpus keeps every
\* section that declares an ID, whatever ids came before).
IdLists ==
    {ids \in UNION {[1..n -> QueryIds] : n \in 1..MaxDocs} :
        \/ \A i, j \in DOMAIN ids : i < j => IdLt(ids[i], ids[j])
        \/ \A i, j \in DOMAIN ids : i < j => IdLt(ids[j], ids[i])}
    \cup {<<DefA, DefA>>, <<FixF, DefA, FixF>>}

Init ==
    /\ \E ids \in IdLists :
          /\ metadata = [i \in DOMAIN ids |-> QueryDoc(ids[i], i)]
          /\ distances \in [DOMAIN ids -> 0..MaxDist]
          /\ scores \in [DOMAIN ids -> 0..MaxScore]
    /\ call = NoCall
    /\ BuildIdle

Next == QuerySemantic \/ QueryKeyword \/ QueryHybrid \/ Return

Spec == Init /\ [][Next]_vars

(***************************************************************************)
(* build_embeddings.py: parse_markdown_corpus.                             *)
(***************************************************************************)
MarkId == "**ID:**"
MarkTags == "**Tags:**"
MarkType == "**Type:**"
MarkRelated == "**Related:**"
NoMark == ""

\* A line: whether it starts with white space, the marker it carries (if
\* any) and the text after the marker, split into tokens.
Line(indent, marker, payload) ==
    [indent |-> indent, marker |-> marker, payload |-> payload]

\* line.startswith(marker)
StartsWith(line, marker) == ~line.indent /\ line.marker = marker

\* A line of white space only.
IsBlank(line) == line.marker = NoMark /\ line.payload = <<>>

\* The truth value of doc_id: None and the empty string are false.
Truthy(doc_id) == doc_id # None /\ doc_id # <<>>

\* The loop body of parse_markdown_corpus (lines 96-111) on one line.
ScanLine(st, line) ==
    IF StartsWith(line, MarkId) THEN [st EXCEPT !.doc_id = line.payload]
    ELSE IF StartsWith(line, MarkTags) THEN [st EXCEPT !.tags = line.payload]
    ELSE IF StartsWith(line, MarkType) THEN [st EXCEPT !.doc_type = line.payload]
    ELSE IF StartsWith(line, MarkRelated) THEN st
    ELSE LET in_content == st.in_content \/ Truthy(st.doc_id)
         IN  [st EXCEPT !.in_content = in_content,
                        !.content_lines =
                            IF in_content THEN Append(@, line) ELSE @]

RECURSIVE ScanLines(_, _)
ScanLines(st, lines) ==
    IF lines = <<>> THEN st
    ELSE ScanLines(ScanLine(st, Head(lines)), Tail(lines))

\* "\n".join(content_lines).strip(): blank lines at both ends go, and so does
\* the white space before the first line left.
RECURSIVE LStrip(_)
LStrip(lines) ==
    IF lines = <<>> THEN <<>>
    ELSE IF IsBlank(Head(lines)) THEN LStrip(Tail(lines))
    ELSE <<[Head(lines) EXCEPT !.indent = FALSE]>> \o Tail(lines)

RECURSIVE RStrip(_)
RStrip(lines) ==
    IF lines = <<>> THEN <<>>
    ELSE IF IsBlank(lines[Len(lines)]) THEN RStrip(SubSeq(lines, 1, Len(lines) - 1))
    ELSE lines

Strip(lines) == RStrip(LStrip(lines))

\* One section of a file (lines 86-123): <<>> when it has no ID, else the
\* one CorpusDocument.
ParseSection(section, md_file) ==
    LET st == ScanLines([doc_id |-> None, tags |-> <<>>, doc_type |-> None,
                         content_lines |-> <<>>, in_content |-> FALSE],
                        section.lines)
    IN  IF Truthy(st.doc_id)
        THEN <<[doc_id |-> st.doc_id, title |-> section.title, tags |-> st.tags,
                doc_type |-> st.doc_type, content |-> Strip(st.content_lines),
                source_file |-> md_file]>>
        ELSE <<>>

RECURSIVE ParseSections(_, _)
ParseSections(sections, md_file) ==
    IF sections = <<>> THEN <<>>
    ELSE ParseSection(Head(sections), md_file) \o ParseSections(Tail(sections), md_file)

\* parse_markdown_corpus: the documents of every file, in the order the
\* directory lists the files.
RECURSIVE parse_markdown_corpus(_)
parse_markdown_corpus(files) ==
    IF files = <<>> THEN <<>>
    ELSE ParseSections(Head(files).sections, Head(files).name)
            \o parse_markdown_corpus(Tail(files))

\* What parse_markdown_corpus prints: one "Parsing <file>..." per file.
ParseLog(files) == [i \in DOMAIN files |-> <<"Parsing", files[i].name>>]

(***************************************************************************)
(* build_tensors.py: KnowledgeGraphBuilder.                                *)
(***************************************************************************)
NODE_TYPES ==
    [definition |-> 0, law |-> 1, pattern |-> 2, violation |-> 3, fix |-> 4,
     example |-> 5, test_template |-> 6]

EDGE_TYPES ==
    [defines |-> 0, requires |-> 1, verifies |-> 2, violates |-> 3, fixes |-> 4,
     implements |-> 5, relates_to |-> 6, uses |-> 7]

\* "<role>-" in node_id: some segment but the last is the role.
HasRole(id, role) == \E i \in 1..(Len(id) - 1) : id[i] = role

\* re.findall(r"<role>-[\w-]+", token): the match starts at the first
\* "<role>-" and runs to the end of the token.
FindInToken(role, token) ==
    IF HasRole(token, role)
    THEN LET i == SetMin({j \in 1..(Len(token) - 1) : token[j] = role})
         IN  <<SubSeq(token, i, Len(token))>>
    ELSE <<>>

RECURSIVE FindInTokens(_, _)
FindInTokens(role, tokens) ==
    IF tokens = <<>> THEN <<>>
    ELSE FindInToken(role, Head(tokens)) \o FindInTokens(role, Tail(tokens))

\* re.findall(r"<role>-[\w-]+", content), content a list of lines.
RECURSIVE FindAll(_, _)
FindAll(role, content) ==
    IF content = <<>> THEN <<>>
    ELSE FindInTokens(role, Head(content).payload) \o FindAll(role, Tail(content))

\* re.search(r"\*\*Related:\*\*\s*([^\n]+)", content) and the split of its
\* group on commas: the ids on the first line of content that holds the
\* marker (every marker line of the model has text after the marker).
RelatedIds(content) ==
    LET hits == {i \in DOMAIN content : content[i].marker = MarkRelated}
    IN  IF hits = {} THEN <<>> ELSE content[SetMin(hits)].payload

\* self.edges.append((node_id, other_id, edge_type)) for each id found
EdgesFrom(src, dsts, edge_type) == [i \in DOMAIN dsts |-> <<src, dsts[i], edge_type>>]

\* The defines edges appended with source and destination swapped.
EdgesTo_swapped(srcs, dst, edge_type) == [i \in DOMAIN srcs |-> <<dst, srcs[i], edge_type>>]

\* self.edges.append((def_id, node_id, "defines")) for each def_id found
EdgesTo(srcs, dst, edge_type) == [i \in DOMAIN srcs |-> <<srcs[i], dst, edge_type>>]

\* _extract_relationships: the edges it appends, in order.
extract_relationships(node_id, content) ==
    EdgesFrom(node_id, RelatedIds(content), "relates_to")
    \o (IF HasRole(node_id, "violation")
        THEN EdgesFrom(node_id, FindAll("fix", content), "fixes")
             \o EdgesFrom(node_id, FindAll("law", content), "violates")
        ELSE IF HasRole(node_id, "pattern")
        THEN EdgesTo(FindAll("def", content), node_id, "defines")
             \o EdgesFrom(node_id, FindAll("example", content), "implements")
        ELSE IF HasRole(node_id, "test")
        THEN EdgesFrom(node_id, FindAll("pattern", content), "verifies")
        ELSE <<>>)

\* embedding_lookup = {doc["id"]: embeddings[i] ...}: the row of the last
\* entry with that id (rows are named by their 0-based index).
EmbeddingLookup(meta, doc_id) ==
    SetMax({i \in DOMAIN meta : meta[i].id = doc_id}) - 1

\* The loop of parse_corpus (lines 80-95) over the metadata entries.
RECURSIVE ParseDocs(_, _, _)
ParseDocs(builder, meta, i) ==
    IF i > Len(meta) THEN builder
    ELSE LET doc == meta[i]
             node == [id |-> doc.id, type |-> doc.type, tags |-> doc.tags,
                      embedding |-> EmbeddingLookup(meta, doc.id)]
             others == [k \in (DOMAIN builder.nodes) \ {doc.id} |-> builder.nodes[k]]
         IN  ParseDocs([nodes |-> (doc.id :> node) @@ others,
                        edges |-> builder.edges
                                    \o extract_relationships(doc.id, doc.content)],
                       meta, i + 1)

\* build_graph as a simple graph: a triple repeated in self.edges is kept
\* once.
build_graph_simple(builder) ==
    LET ids == DOMAIN builder.nodes
        \* sorted(self.nodes.keys())
        node_ids == CHOOSE q \in Perms(ids) :
                        \A i, j \in DOMAIN q : i < j => IdLt(q[i], q[j])
        node_to_idx == [id \in ids |->
                          (CHOOSE i \in DOMAIN node_ids : node_ids[i] = id) - 1]
        once == {i \in DOMAIN builder.edges :
                    \A j \in 1..(i - 1) : builder.edges[j] # builder.edges[i]}
        kept == SelectSeq([i \in DOMAIN builder.edges |->
                              IF i \in once THEN builder.edges[i] ELSE <<>>],
                          LAMBDA e : e # <<>> /\ e[1] \in ids /\ e[2] \in ids)
    IN  [node_ids |-> node_ids,
         node_to_idx |-> node_to_idx,
         x |-> [i \in DOMAIN node_ids |-> builder.nodes[node_ids[i]].embedding],
         node_type |-> [i \in DOMAIN node_ids |->
                          NODE_TYPES[builder.nodes[node_ids[i]].type]],
         edge_index |-> [i \in DOMAIN kept |->
                          <<node_to_idx[kept[i][1]], node_to_idx[kept[i][2]]>>],
         edge_type |-> [i \in DOMAIN kept |-> EDGE_TYPES[kept[i][3]]]]

\* build_graph, given that every node type is a key of NODE_TYPES.
build_graph(builder) ==
    LET ids == DOMAIN builder.nodes
        \* sorted(self.nodes.keys())
        node_ids == CHOOSE q \in Perms(ids) :
                        \A i, j \in DOMAIN q : i < j => IdLt(q[i], q[j])
        node_to_idx == [id \in ids |->
                          (CHOOSE i \in DOMAIN node_ids : node_ids[i] = id) - 1]
        kept == SelectSeq(builder.edges,
                          LAMBDA e : e[1] \in ids /\ e[2] \in ids)
    IN  [node_ids |-> node_ids,
         node_to_idx |-> node_to_idx,
         x |-> [i \in DOMAIN node_ids |-> builder.nodes[node_ids[i]].embedding],
         node_type |-> [i \in DOMAIN node_ids |->
                          NODE_TYPES[builder.nodes[node_ids[i]].type]],
         edge_index |-> [i \in DOMAIN kept |->
                          <<node_to_idx[kept[i][1]], node_to_idx[kept[i][2]]>>],
         edge_type |-> [i \in DOMAIN kept |-> EDGE_TYPES[kept[i][3]]]]

\* save_graph_tensor: category_graph.pt and graph_stats.json.
save_graph_tensor(g) ==
    [graph_file |-> [graph |-> g, node_types |-> NODE_TYPES, edge_types |-> EDGE_TYPES],
     stats |->
        [num_nodes |-> Len(g.x),
         num_edges |-> Len(g.edge_index),
         nodes_by_type |->
            [t \in DOMAIN NODE_TYPES |->
                Cardinality({i \in DOMAIN g.node_type : g.node_type[i] = NODE_TYPES[t]})],
         edges_by_type |->
            [t \in DOMAIN EDGE_TYPES |->
                Cardinality({i \in DOMAIN g.edge_type : g.edge_type[i] = EDGE_TYPES[t]})]]]

(***************************************************************************)
(* The build scripts as steps.                                             *)
(***************************************************************************)
\* build_embeddings.py main: parse the corpus; give up when it holds no
\* document, else write metadata.json (one to_dict per document, in order).
BuildEmbeddings ==
    /\ pc = "corpus"
    /\ documents' = parse_markdown_corpus(corpus)
    /\ log' = ParseLog(corpus)
    /\ IF documents' = <<>>
       THEN /\ pc' = "no_documents"
            /\ UNCHANGED metadata
       ELSE /\ pc' = "embedded"
            /\ metadata' = [i \in DOMAIN documents' |-> to_dict(documents'[i])]
    /\ UNCHANGED <<distances, scores, call, corpus, nodes, edges, graph, saved,
                   parse_calls>>
    /\ UNCHANGED otherData

\* KnowledgeGraphBuilder.parse_corpus on the builder, any number of times
\* before build_graph.
ParseCorpus ==
    /\ pc \in {"embedded", "parsed"}
    /\ parse_calls < MaxParseCalls
    /\ LET b == ParseDocs([nodes |-> nodes, edges |-> edges], metadata, 1)
       IN  /\ nodes' = b.nodes
           /\ edges' = b.edges
    /\ parse_calls' = parse_calls + 1
    /\ pc' = "parsed"
    /\ UNCHANGED <<metadata, distances, scores, call, corpus, documents, log,
                   graph, saved>>
    /\ UNCHANGED otherData

\* KnowledgeGraphBuilder.build_graph: NODE_TYPES[node["type"]] raises KeyError
\* for a type that is no key of NODE_TYPES (None included).
BuildGraph ==
    /\ pc = "parsed"
    /\ IF \A id \in DOMAIN nodes : nodes[id].type \in DOMAIN NODE_TYPES
       THEN /\ graph' = build_graph([nodes |-> nodes, edges |-> edges])
            /\ pc' = "built"
       ELSE /\ pc' = "KeyError"
            /\ UNCHANGED graph
    /\ UNCHANGED <<metadata, distances, scores, call, corpus, documents, log,
                   nodes, edges, saved, parse_calls>>
    /\ UNCHANGED otherData

SaveGraphTensor ==
    /\ pc = "built"
    /\ saved' = save_graph_tensor(graph)
    /\ pc' = "saved"
    /\ UNCHANGED <<metadata, distances, scores, call, corpus, documents, log,
                   nodes, edges, graph, parse_calls>>
    /\ UNCHANGED otherData

\* The lines a section of the corpus is made of.
CorpusLines ==
    {Line(FALSE, MarkId, PatternB), Line(FALSE, MarkId, DefA),
     Line(FALSE, MarkId, TestPatternC),
     Line(FALSE, MarkType, "pattern"), Line(FALSE, MarkType, "definition"),
     Line(FALSE, MarkType, "note"),
     Line(FALSE, MarkTags, <<"t1", "t2">>),
     Line(FALSE, MarkRelated, <<DefA, FixF>>),
     Line(TRUE, MarkRelated, <<FixF>>),
     Line(FALSE, NoMark, <<DefA, PatternB, ExampleE>>),
     Line(TRUE, NoMark, <<ExampleE>>),
     Line(FALSE, NoMark, <<>>)}

\* The second file's section: none of its own document, a bare id, or a
\* definition with its type and a line of text.
SecondSections ==
    {<<>>,
     <<Line(FALSE, MarkId, PatternB)>>,
     <<Line(FALSE, MarkId, DefA)>>,
     <<Line(FALSE, MarkId, DefA), Line(FALSE, MarkType, "definition")>>,
     <<Line(FALSE, MarkId, PatternB), Line(FALSE, MarkType, "definition")>>,
     <<Line(FALSE, MarkId, DefA), Line(FALSE, NoMark, <<DefA, PatternB, ExampleE>>)>>,
     <<Line(FALSE, MarkId, DefA), Line(FALSE, MarkType, "definition"),
       Line(FALSE, NoMark, <<DefA, PatternB, ExampleE>>)>>}

SeqsUpTo(S, n) == UNION {[1..k -> S] : k \in 0..n}

\* A corpus directory of two files with one section each.
InitBuild ==
    /\ \E l1 \in SeqsUpTo(CorpusLines, MaxLines), l2 \in SecondSections :
          corpus = <<[name |-> "a.md", sections |-> <<[title |-> "A", lines |-> l1]>>],
                     [name |-> "b.md", sections |-> <<[title |-> "B", lines |-> l2]>>]>>
    /\ metadata = <<>>
    /\ distances = <<>>
    /\ scores = <<>>
    /\ call = NoCall
    /\ documents = <<>>
    /\ log = <<>>
    /\ nodes = <<>>
    /\ edges = <<>>
    /\ graph = <<>>
    /\ saved = <<>>
    /\ parse_calls = 0
    /\ index = <<>>
    /\ session = <<>>
    /\ pc = "corpus"

NextBuild == BuildEmbeddings \/ ParseCorpus \/ BuildGraph \/ SaveGraphTensor

SpecBuild == InitBuild /\ [][NextBuild]_vars

(***************************************************************************)
(* The build over the corpus of def-functor-001 and pattern-compose-001.   *)
(***************************************************************************)
MaxFill == 1

\* A word that is no id.
Word(w) == <<w>>

\* Lines that mention neither document.
FillerLines ==
    {Line(FALSE, NoMark, <<>>), Line(FALSE, NoMark, <<Word("see")>>),
     Line(FALSE, MarkTags, <<"t1">>), Line(FALSE, NoMark, <<ExampleE>>)}

\* Lines of text that mention the document id once.
Mentions(id) ==
    {Line(FALSE, NoMark, <<id>>), Line(FALSE, NoMark, <<Word("see"), id>>),
     Line(TRUE, NoMark, <<id, Word("too")>>)}

\* def-functor-001: a definition whose content mentions pattern-compose-001.
DefFunctorSections ==
    {[title |-> "Functor",
      lines |-> <<Line(FALSE, MarkId, DefFunctor001),
                  Line(FALSE, MarkType, "definition"), mention>>] :
        mention \in Mentions(PatternCompose001)}

\* pattern-compose-001: a pattern whose content mentions def-functor-001 once.
PatternComposeSections ==
    {[title |-> "Compose",
      lines |-> <<Line(FALSE, MarkId, PatternCompose001),
                  Line(FALSE, MarkType, "pattern")>>
                \o before \o <<mention>> \o after] :
        before \in SeqsUpTo(FillerLines, MaxFill),
        mention \in Mentions(DefFunctor001),
        after \in SeqsUpTo(FillerLines, 1)}

\* The two documents in two files, in either order, or in one file.
InitScenario ==
    /\ \E d \in DefFunctorSections, p \in PatternComposeSections :
          corpus \in
            {<<[name |-> "a.md", sections |-> <<d>>],
               [name |-> "b.md", sections |-> <<p>>]>>,
             <<[name |-> "a.md", sections |-> <<p>>],
               [name |-> "b.md", sections |-> <<d>>]>>,
             <<[name |-> "a.md", sections |-> <<d, p>>]>>}
    /\ metadata = <<>>
    /\ distances = <<>>
    /\ scores = <<>>
    /\ call = NoCall
    /\ documents = <<>>
    /\ log = <<>>
    /\ nodes = <<>>
    /\ edges = <<>>
    /\ graph = <<>>
    /\ saved = <<>>
    /\ parse_calls = 0
    /\ index = <<>>
    /\ session = <<>>
    /\ pc = "corpus"

SpecScenario == InitScenario /\ [][NextBuild]_vars

(***************************************************************************)
(* build_index.py: build_faiss_index.                                      *)
(***************************************************************************)
MaxVectors == 1010
MaxDim == 2

\* The index types: the three choices of --index-type, and one the function
\* does not know.
IndexTypes == {"Flat", "IVF", "HNSW", "PQ"}

\* nlist = min(100, dimension // 10), dimension being embeddings.shape[0],
\* the number of vectors.
nlist(dimension) == Min2(100, dimension \div 10)

\* Number of connections per layer of the HNSW index.
M == 32

\* A FAISS index object, or the exception in place of one.
FaissIndex(kind, d, clusters, links, ntotal, raised) ==
    [kind |-> kind, d |-> d, nlist |-> clusters, M |-> links, ntotal |-> ntotal,
     raised |-> raised]

\* build_faiss_index(embeddings, index_type): the possible outcomes.  What
\* FAISS does with an IVF index of 0 clusters is the library's business: it
\* may raise in train or add, or go on with an index that has no list.
build_faiss_index(embeddings, index_type) ==
    LET dimension == embeddings.shape[1]
        embedding_dim == embeddings.shape[2]
    IN  IF index_type = "Flat"
        THEN {FaissIndex("IndexFlatL2", embedding_dim, None, None, dimension, None)}
        ELSE IF index_type = "IVF"
        THEN IF nlist(dimension) > 0
             THEN {FaissIndex("IndexIVFFlat", embedding_dim, nlist(dimension), None,
                              dimension, None)}
             ELSE {FaissIndex("IndexIVFFlat", embedding_dim, nlist(dimension), None,
                              dimension, None),
                   FaissIndex("IndexIVFFlat", embedding_dim, nlist(dimension), None,
                              0, "RuntimeError")}
        ELSE IF index_type = "HNSW"
        THEN {FaissIndex("IndexHNSWFlat", embedding_dim, None, M, dimension, None)}
        ELSE {FaissIndex(None, embedding_dim, None, None, 0, "ValueError")}

\* build_index.py main from the loaded embeddings on.
BuildFaissIndex ==
    /\ pc = "embeddings_loaded"
    /\ \E faiss_index \in build_faiss_index(index.embeddings, index.index_type) :
          /\ index' = [index EXCEPT !.faiss_index = faiss_index]
          /\ pc' = IF faiss_index.raised = None THEN "index_built" ELSE "index_failed"
    /\ UNCHANGED <<metadata, distances, scores, call, session>>
    /\ UNCHANGED buildData

\* load_embeddings: an N x D array, N >= 1 (build_embeddings.py writes none
\* for a corpus without documents).
InitIndex ==
    /\ \E n \in 1..MaxVectors, d \in 1..MaxDim, index_type \in IndexTypes :
          index = [embeddings |-> [shape |-> <<n, d>>], index_type |-> index_type,
                   faiss_index |-> None]
    /\ metadata = <<>>
    /\ distances = <<>>
    /\ scores = <<>>
    /\ call = NoCall
    /\ corpus = <<>>
    /\ documents = <<>>
    /\ log = <<>>
    /\ nodes = <<>>
    /\ edges = <<>>
    /\ graph = <<>>
    /\ saved = <<>>
    /\ parse_calls = 0
    /\ session = <<>>
    /\ pc = "embeddings_loaded"

NextIndex == BuildFaissIndex

SpecIndex == InitIndex /\ [][NextIndex]_vars

(***************************************************************************)
(* query_rag.py: ACTKnowledgeBase.query and the interactive loop of main.  *)
(***************************************************************************)
\* query(query, query_type, top_k): query_hybrid is called without alpha, so
\* with its default 0.5; any other query_type raises ValueError.
query(query_type, top_k) ==
    IF query_type = "semantic" THEN semantic_outcomes(top_k)
    ELSE IF query_type = "keyword" THEN keyword_outcomes(top_k)
    ELSE IF query_type = "hybrid" THEN hybrid_outcomes({top_k}, {Half})
    ELSE {Raised(query_type, top_k, Zero, "ValueError")}

\* The default of --top-k.
DefaultTopK == 5

\* int(s) for the strings the model types after :k; int raises ValueError
\* for any other string.
IntLiterals == [zero |-> 0, two |-> 2, minus_one |-> -1, plus_two |-> 2]

IntArgs == {"0", "2", "-1", "+2", "two", "2.5"}

IsIntLiteral(str) == str \in {"0", "2", "-1", "+2"}

int(str) ==
    IF str = "0" THEN IntLiterals.zero
    ELSE IF str = "2" THEN IntLiterals.two
    ELSE IF str = "-1" THEN IntLiterals.minus_one
    ELSE IntLiterals.plus_two

\* str.lower() for the strings the model types after :content.
lower(str) == IF str = "ON" THEN "on" ELSE IF str = "Off" THEN "off" ELSE str

\* The command lines the model types: the line split once at white space.
CommandLines ==
    {<<":quit">>, <<":quit", "now">>, <<":help">>, <<":type">>, <<":k">>,
     <<":content">>}
    \cup {<<":type", arg>> : arg \in {"semantic", "keyword", "hybrid", "fuzzy"}}
    \cup {<<":k", arg>> : arg \in IntArgs}
    \cup {<<":content", arg>> : arg \in {"on", "ON", "off", "Off", "yes"}}

\* The lines the model types that do not start with ":": the query texts.
QueryLines == {<<"functor">>}

\* One pass of the loop on a line that starts with ":" (lines 357-373),
\* ValueError of int() caught at line 386. The variant before it also puts
\* the result count back to its default when the mode is set.
HandleCommand_type_resets_k(parts) ==
    LET cmd == parts[1]
    IN  IF cmd = ":quit"
        THEN [session |-> [session EXCEPT !.output = "none"], pc |-> "exited"]
        ELSE IF cmd = ":type" /\ Len(parts) > 1
        THEN [session |-> [session EXCEPT !.query_type = parts[2],
                                          !.top_k = DefaultTopK,
                                          !.output = "Query type set to"],
              pc |-> "prompt"]
        ELSE IF cmd = ":k" /\ Len(parts) > 1
        THEN IF IsIntLiteral(parts[2])
             THEN [session |-> [session EXCEPT !.top_k = int(parts[2]),
                                               !.output = "Top-k set to"],
                   pc |-> "prompt"]
             ELSE [session |-> [session EXCEPT !.output = "Error"], pc |-> "prompt"]
        ELSE IF cmd = ":content" /\ Len(parts) > 1
        THEN [session |-> [session EXCEPT !.show_content = (lower(parts[2]) = "on"),
                                          !.output = "Content display"],
              pc |-> "prompt"]
        ELSE [session |-> [session EXCEPT !.output = "Unknown command"],
              pc |-> "prompt"]

HandleCommand(parts) ==
    LET cmd == parts[1]
    IN  IF cmd = ":quit"
        THEN [session |-> [session EXCEPT !.output = "none"], pc |-> "exited"]
        ELSE IF cmd = ":type" /\ Len(parts) > 1
        THEN [session |-> [session EXCEPT !.query_type = parts[2],
                                          !.output = "Query type set to"],
              pc |-> "prompt"]
        ELSE IF cmd = ":k" /\ Len(parts) > 1
        THEN IF IsIntLiteral(parts[2])
             THEN [session |-> [session EXCEPT !.top_k = int(parts[2]),
                                               !.output = "Top-k set to"],
                   pc |-> "prompt"]
             ELSE [session |-> [session EXCEPT !.output = "Error"], pc |-> "prompt"]
        ELSE IF cmd = ":content" /\ Len(parts) > 1
        THEN [session |-> [session EXCEPT !.show_content = (lower(parts[2]) = "on"),
                                          !.output = "Content display"],
              pc |-> "prompt"]
        ELSE [session |-> [session EXCEPT !.output = "Unknown command"],
              pc |-> "prompt"]

\* A line of white space only: continue.
ReplEmptyLine ==
    /\ pc = "prompt"
    /\ session' = [session EXCEPT !.query = <<>>, !.output = "none"]
    /\ call' = NoCall
    /\ UNCHANGED <<metadata, distances, scores, index, pc>>
    /\ UNCHANGED buildData

ReplCommand ==
    /\ pc = "prompt"
    /\ \E parts \in CommandLines :
          /\ session' = [HandleCommand(parts).session EXCEPT !.query = parts]
          /\ pc' = HandleCommand(parts).pc
    /\ call' = NoCall
    /\ UNCHANGED <<metadata, distances, scores, index>>
    /\ UNCHANGED buildData

\* Any other line is a query (lines 376-381); an exception of kb.query is
\* caught at line 386 and the loop goes on.
ReplQuery ==
    /\ pc = "prompt"
    /\ \E line \in QueryLines, o \in query(session.query_type, session.top_k) :
          /\ call' = o.call
          /\ metadata' = o.metadata
          /\ session' = [session EXCEPT
                            !.query = line,
                            !.output = IF o.call.raised = None
                                       THEN "results" ELSE "Error"]
    /\ UNCHANGED <<distances, scores, index, pc>>
    /\ UNCHANGED buildData

\* Ctrl-C at the prompt: KeyboardInterrupt (line 383); input() returns no
\* line.
ReplInterrupt ==
    /\ pc = "prompt"
    /\ session' = [session EXCEPT !.output = "Exiting"]
    /\ pc' = "exited"
    /\ call' = NoCall
    /\ UNCHANGED <<metadata, distances, scores, index>>
    /\ UNCHANGED buildData

\* End of input at the prompt: input() raises EOFError, an Exception, which
\* line 386 catches; the loop goes on.
ReplEndOfInput ==
    /\ pc = "prompt"
    /\ session' = [session EXCEPT !.output = "Error"]
    /\ call' = NoCall
    /\ UNCHANGED <<metadata, distances, scores, index, pc>>
    /\ UNCHANGED buildData

\* main without --query, over a knowledge base of two documents: the
\* settings start from the arguments (--type is one of the three choices).
\* session.query is the line last read at the prompt, split once at white
\* space (empty before the first line and after a blank line).
InitRepl ==
    /\ metadata = <<QueryDoc(DefA, 1), QueryDoc(FixF, 2)>>
    /\ distances \in [1..2 -> 0..MaxDist]
    /\ scores \in [1..2 -> 0..MaxScore]
    /\ call = NoCall
    /\ corpus = <<>>
    /\ documents = <<>>
    /\ log = <<>>
    /\ nodes = <<>>
    /\ edges = <<>>
    /\ graph = <<>>
    /\ saved = <<>>
    /\ parse_calls = 0
    /\ index = <<>>
    /\ \E query_type \in {"semantic", "keyword", "hybrid"}, show_content \in BOOLEAN :
          session = [query_type |-> query_type, top_k |-> DefaultTopK,
                     show_content |-> show_content, query |-> <<>>,
                     output |-> "none"]
    /\ pc = "prompt"

NextRepl ==
    ReplEmptyLine \/ ReplCommand \/ ReplQuery \/ ReplInterrupt \/ ReplEndOfInput

SpecRepl == InitRepl /\ [][NextRepl]_vars

(***************************************************************************)
(* Claims about the queries (specification Spec).                          *)
(***************************************************************************)
\* The doc_ids of a result list, in order.
Ids(results) == [i \in DOMAIN results |-> results[i].doc.id]

\* No two entries of the metadata share an id.
DistinctIds == \A i, j \in DOMAIN metadata : metadata[i].id = metadata[j].id => i = j

\* C1: query_hybrid with alpha = 1.0 returns the same ordered sequence of
\* doc_ids as query_semantic with the same k, smallest distance first.
\* Stated for 1 <= k <= number of documents, where the semantic search has a
\* neighbour for every slot, over documents with distinct ids.
C1_HybridAlphaOneIsSemantic ==
    (call.op = "hybrid" /\ call.raised = None /\ REq(call.alpha, One)
        /\ call.top_k >= 1 /\ call.top_k <= NumDocs /\ DistinctIds)
    => Ids(call.results) \in {Ids(r) : r \in query_semantic(call.top_k)}

\* C2: in a query_hybrid result, of two documents with equal combined score
\* the one with the lexically smaller doc_id comes first.  Stated over
\* documents with distinct ids.
C2_TiesByAscendingId ==
    (call.op = "hybrid" /\ DistinctIds)
    => \A i, j \in DOMAIN call.results :
          (i < j /\ REq(call.results[i].score, call.results[j].score))
          => IdLt(call.results[i].doc.id, call.results[j].doc.id)

\* C6: query_semantic with top_k greater than the number N of indexed
\* vectors returns exactly N results, each a distinct indexed document.
\* Stated over documents with distinct ids.
C6_SemanticReturnsNWhenKExceeds ==
    (call.op = "semantic" /\ call.raised = None /\ call.top_k > NumDocs
        /\ DistinctIds)
    => /\ Len(call.results) = NumDocs
       /\ \A i, j \in DOMAIN call.results :
             call.results[i].doc = call.results[j].doc => i = j

\* C9: every value normalize produces for a non-empty score mapping lies in
\* [0,1], and when all input scores are equal (a single entry included) every
\* output value is exactly 0.5.
NormalizeContract(in, out) ==
    /\ DOMAIN out = DOMAIN in
    /\ \A k \in DOMAIN out :
          out[k][2] > 0 /\ RLe(Zero, out[k]) /\ RLe(out[k], One)
    /\ (\A k1, k2 \in DOMAIN in : in[k1] = in[k2])
          => \A k \in DOMAIN out : REq(out[k], Half)

C9_NormalizeInUnitInterval ==
    (call.op = "hybrid" /\ call.raised = None)
    => /\ NormalizeContract(call.semantic_scores, call.semantic_norm)
       /\ NormalizeContract(call.keyword_scores, call.keyword_norm)

\* C9 witness: a hybrid query over three documents whose BM25 scores are all
\* equal and whose distances are not, with a distance strictly between the
\* smallest and the largest.
C9_Witness ==
    /\ call.op = "hybrid"
    /\ call.raised = None
    /\ Cardinality(DOMAIN call.keyword_scores) = 3
    /\ \A k1, k2 \in DOMAIN call.keyword_scores :
          call.keyword_scores[k1] = call.keyword_scores[k2]
    /\ \A k \in DOMAIN call.keyword_norm : call.keyword_norm[k] = Half
    /\ \E k \in DOMAIN call.semantic_norm :
          RLt(Zero, call.semantic_norm[k]) /\ RLt(call.semantic_norm[k], One)
    /\ \E k \in DOMAIN call.semantic_norm : REq(call.semantic_norm[k], Zero)
    /\ \E k \in DOMAIN call.semantic_norm : REq(call.semantic_norm[k], One)

\* C10: query_hybrid with alpha = 0.0 returns the same ordered sequence of
\* doc_ids as query_keyword with the same k, documents with equal BM25 score
\* included.  Stated for k >= 1, over documents with distinct ids.
C10_HybridAlphaZeroIsKeyword ==
    (call.op = "hybrid" /\ call.raised = None /\ REq(call.alpha, Zero)
        /\ call.top_k >= 1 /\ DistinctIds)
    => \A r \in query_keyword(call.top_k) : Ids(call.results) = Ids(r)

\* The combined score query_hybrid's frame gives a doc_id.
CombinedOf(doc_id) ==
    Combine(call.alpha, GetOrZero(call.semantic_norm, doc_id),
                        GetOrZero(call.keyword_norm, doc_id))

\* C11: for every k >= 0 and alpha in [0,1], query_hybrid returns at most k
\* results, each doc_id at most once, drawn from the union of the ids the
\* semantic and keyword sub-searches saw, each with its combined score, in
\* order of non-increasing combined score, and no omitted document has a
\* combined score greater than a returned one.
C11_HybridContract ==
    (call.op = "hybrid" /\ call.raised = None)
    => LET results == call.results
           seen == DOMAIN call.semantic_scores \cup DOMAIN call.keyword_scores
       IN  /\ Len(results) <= call.top_k
           /\ \A i, j \in DOMAIN results :
                 results[i].doc.id = results[j].doc.id => i = j
           /\ \A i \in DOMAIN results :
                 /\ results[i].doc.id \in seen
                 /\ REq(results[i].score, CombinedOf(results[i].doc.id))
           /\ \A i, j \in DOMAIN results :
                 i < j => RLe(results[j].score, results[i].score)
           /\ \A doc_id \in seen \ Range(Ids(results)) :
                 \A i \in DOMAIN results :
                    RLe(CombinedOf(doc_id), results[i].score)

\* C11 witness: a hybrid query with 0 < alpha < 1 and k = 2 over three ids
\* returns two documents with different combined scores and leaves out one
\* whose combined score is smaller still.
C11_Witness ==
    /\ call.op = "hybrid"
    /\ call.raised = None
    /\ RLt(Zero, call.alpha) /\ RLt(call.alpha, One)
    /\ call.top_k = 2
    /\ Len(call.results) = 2
    /\ RLt(call.results[2].score, call.results[1].score)
    /\ \E doc_id \in DOMAIN call.semantic_scores \ Range(Ids(call.results)) :
          RLt(CombinedOf(doc_id), call.results[2].score)

\* C13: when the embedding call fails during a semantic or hybrid query, the
\* query does not fail: it returns the keyword (BM25) results for the same
\* top_k, each flagged with a warning.
C13_EmbedderFailureFallsBack ==
    (call.op \in {"semantic", "hybrid"} /\ call.encode = "raised")
    => /\ call.raised = None
       /\ \E r \in query_keyword(call.top_k) : Ids(call.results) = Ids(r)
       /\ \A i \in DOMAIN call.results : "warning" \in DOMAIN call.results[i]

C20_KeywordReturnsMinKN ==
    (call.op = "keyword" /\ call.raised = None)
    => /\ Len(call.results) = Min2(call.top_k, NumDocs)
       /\ \A i, j \in DOMAIN call.results :
             i < j => call.results[j].score <= call.results[i].score

(***************************************************************************)
(* Claims about the build (specification SpecBuild).                       *)
(***************************************************************************)
\* The sections of the corpus with the file each is in.
CorpusSections ==
    {[file |-> corpus[f].name, section |-> corpus[f].sections[k]] :
        f \in DOMAIN corpus, k \in {1}}

\* The id a section declares on its first ID line (None without one).
FirstMarked(lines, marker) ==
    LET hits == {i \in DOMAIN lines : StartsWith(lines[i], marker)}
    IN  IF hits = {} THEN None ELSE lines[SetMin(hits)].payload

Embedded == pc \in {"embedded", "parsed", "built", "saved", "KeyError"}

\* The multiset of a list of edges.
EdgeBag(es) == [e \in Range(es) |-> Cardinality({i \in DOMAIN es : es[i] = e})]

\* C3: when the same doc_id appears in sections of two source files, the
\* build reports exactly one DuplicateDocumentId warning and the document
\* list, the metadata and the graph nodes each hold exactly one copy of that
\* id, the first-seen one.
C3_DuplicateIdFlaggedFirstKept ==
    LET first == ParseSection(corpus[1].sections[1], corpus[1].name)
        second == ParseSection(corpus[2].sections[1], corpus[2].name)
    IN  (Embedded /\ first # <<>> /\ second # <<>>
            /\ first[1].doc_id = second[1].doc_id)
        => /\ Cardinality({i \in DOMAIN log : log[i][1] = "DuplicateDocumentId"}) = 1
           /\ documents = first
           /\ metadata = <<to_dict(first[1])>>
           /\ pc \in {"parsed", "built", "saved", "KeyError"}
                => nodes[first[1].doc_id].type = first[1].doc_type

\* C4: however often parse_corpus has run on the builder over the unchanged
\* corpus, the builder holds the edge multiset of a single run.
C4_ParseCorpusIdempotent ==
    parse_calls >= 1
    => EdgeBag(edges)
         = EdgeBag(ParseDocs([nodes |-> <<>>, edges |-> <<>>], metadata, 1).edges)

\* C5: for every section with an ID and a Related annotation line listing
\* r1..rn, the edges extracted from the metadata hold one relates_to edge
\* (doc_id, ri) for each ri.
C5_RelatedLineYieldsEdges ==
    pc = "parsed"
    => \A cs \in CorpusSections :
          \A i \in DOMAIN ParseSection(cs.section, cs.file) :
             \A l \in Range(cs.section.lines) :
                StartsWith(l, MarkRelated)
                => \A r \in Range(l.payload) :
                      <<ParseSection(cs.section, cs.file)[i].doc_id, r, "relates_to">>
                         \in Range(edges)

\* The edges that can be read back from what save_graph_tensor wrote.
PersistedEdges ==
    LET g == saved.graph_file.graph
    IN  {<<g.node_ids[g.edge_index[i][1] + 1], g.node_ids[g.edge_index[i][2] + 1],
           CHOOSE t \in DOMAIN EDGE_TYPES : EDGE_TYPES[t] = g.edge_type[i]>> :
         i \in DOMAIN g.edge_index}

\* C7: an extracted edge with an endpoint that is no parsed node is left out
\* of the edge index but is still present in the persisted graph output.
C7_DanglingEdgesPersisted ==
    pc = "saved"
    => \A e \in Range(edges) :
          (e[1] \notin DOMAIN nodes \/ e[2] \notin DOMAIN nodes)
          => /\ Len(graph.edge_index)
                  = Cardinality({i \in DOMAIN edges :
                        edges[i][1] \in DOMAIN nodes /\ edges[i][2] \in DOMAIN nodes})
             /\ e \in PersistedEdges

\* C8: when a section holds the same marker (ID, Tags or Type) on several
\* lines, the parsed document's field is the value of the first of them.
C8_FirstMarkerWins ==
    Embedded
    => \A cs \in CorpusSections :
          \A d \in Range(documents) :
             d.source_file = cs.file
             => /\ d.doc_id = FirstMarked(cs.section.lines, MarkId)
                /\ FirstMarked(cs.section.lines, MarkTags) # None
                     => d.tags = FirstMarked(cs.section.lines, MarkTags)
                /\ FirstMarked(cs.section.lines, MarkType) # None
                     => d.doc_type = FirstMarked(cs.section.lines, MarkType)

\* An id that carries the test_template role: it starts with "test-".
TestTemplateRole(id) == Len(id) >= 2 /\ id[1] = "test"

\* C12: for every document whose id carries the test_template role (ids such
\* as test-pattern-c, which hold another role's prefix, included), each
\* pattern-role id in its content yields a verifies edge from the document
\* to that id, and the document is not processed under the violation or
\* pattern rules (it gets no fixes, violates, defines or implements edge).
C12_TestTemplateVerifies ==
    pc = "parsed"
    => \A i \in DOMAIN metadata :
          TestTemplateRole(metadata[i].id)
          => /\ \A p \in Range(FindAll("pattern", metadata[i].content)) :
                   <<metadata[i].id, p, "verifies">> \in Range(edges)
             /\ \A e \in Range(edges) :
                   /\ e[3] \in {"fixes", "violates", "implements"}
                        => e[1] # metadata[i].id
                   /\ e[3] = "defines" => e[2] # metadata[i].id

\* C15: a document with malformed or missing metadata (no Type line, or a
\* Type outside the node-type enumeration) does not abort the graph build:
\* build_graph completes and the graph holds a node for every well-formed
\* document.
C15_MalformedMetadataNonFatal ==
    pc \in {"built", "saved", "KeyError"}
    => /\ pc # "KeyError"
       /\ \A id \in DOMAIN nodes :
             nodes[id].type \in DOMAIN NODE_TYPES => id \in Range(graph.node_ids)

\* Leading blank lines removed, nothing else touched.
RECURSIVE DropLeadingBlank(_)
DropLeadingBlank(lines) ==
    IF lines = <<>> THEN <<>>
    ELSE IF IsBlank(Head(lines)) THEN DropLeadingBlank(Tail(lines))
    ELSE lines

\* Trailing blank lines removed, nothing else touched.
RECURSIVE DropTrailingBlank(_)
DropTrailingBlank(lines) ==
    IF lines = <<>> THEN <<>>
    ELSE IF IsBlank(lines[Len(lines)])
    THEN DropTrailingBlank(SubSeq(lines, 1, Len(lines) - 1))
    ELSE lines

\* A line the parser recognises as a metadata or Related line.
IsMarkerLine(line) ==
    \E marker \in {MarkId, MarkTags, MarkType, MarkRelated} : StartsWith(line, marker)

\* The content the claim gives a section that has an ID line.
ContentAfterId(lines) ==
    LET first == SetMin({i \in DOMAIN lines : StartsWith(lines[i], MarkId)})
        after == SubSeq(lines, first + 1, Len(lines))
    IN  DropTrailingBlank(DropLeadingBlank(
            SelectSeq(after, LAMBDA l : ~IsMarkerLine(l))))

\* C19: for every section with an ID, the parsed content is exactly the
\* in-order sequence of the lines after the line on which ID is first set,
\* minus the ID, Tags, Type and Related marker lines, with leading and
\* trailing blank lines trimmed; lines before the ID line are no part of it.
C19_ContentIsLinesAfterId ==
    Embedded
    => \A cs \in CorpusSections :
          \A d \in Range(documents) :
             d.source_file = cs.file
             => d.content = ContentAfterId(cs.section.lines)

\* C16: for the two-document corpus of def-functor-001 (a definition whose
\* content mentions pattern-compose-001) and pattern-compose-001 (a pattern
\* whose content mentions def-functor-001 once), the edges one parse_corpus
\* run extracts hold exactly one defines edge, and it is
\* (def-functor-001, pattern-compose-001).
C16_ScenarioOneDefinesEdge ==
    (/\ parse_calls = 1
     /\ {metadata[i].id : i \in DOMAIN metadata} = {DefFunctor001, PatternCompose001}
     /\ Len(metadata) = 2)
    => SelectSeq(edges, LAMBDA e : e[3] = "defines")
         = << <<DefFunctor001, PatternCompose001, "defines">> >>

\* C16 witness: the corpus lists the pattern first, parse_corpus has run once
\* and extracted the defines edge next to an edge of another type.
C16_Witness ==
    /\ pc = "parsed"
    /\ parse_calls = 1
    /\ Len(metadata) = 2
    /\ metadata[1].id = PatternCompose001
    /\ metadata[2].id = DefFunctor001
    /\ <<DefFunctor001, PatternCompose001, "defines">> \in Range(edges)
    /\ \E e \in Range(edges) : e[3] # "defines"

(***************************************************************************)
(* Claims about the index build (specification SpecIndex).                 *)
(***************************************************************************)
\* C18: for the IVF variant, the cluster count used for a vector set of size
\* N >= 1 is max(1, min(100, N / 10)); it is never 0, also for N < 10.
C18_IvfClusterCount ==
    (pc \in {"index_built", "index_failed"} /\ index.index_type = "IVF")
    => /\ index.faiss_index.nlist
            = Max2(1, Min2(100, index.embeddings.shape[1] \div 10))
       /\ index.faiss_index.nlist # 0

(***************************************************************************)
(* Claims about the interactive session (specification SpecRepl).          *)
(***************************************************************************)
\* The query modes.
Modes == {"semantic", "keyword", "hybrid"}

\* C14: a request whose mode is outside {semantic, keyword, hybrid} fails
\* with an error and returns no results, it is never answered in a default
\* mode, and the interactive session never holds a current mode outside the
\* enumeration, whatever commands were typed.
C14_UnknownModeFailsFast ==
    /\ (call.op \notin Modes \cup {"none"})
          => /\ call.raised = "ValueError"
             /\ call.results = <<>>
    /\ session.query_type \in Modes

\* The three settings of the session.
Settings(s) == <<s.query_type, s.top_k, s.show_content>>

\* The inputs the loop rejects: an unknown command, a command without its
\* argument, :k with a non-integer, and a query that raises.
RejectedInput(q, c) ==
    \/ Len(q) >= 1 /\ q \notin QueryLines
          /\ q[1] \notin {":quit", ":type", ":k", ":content"}
    \/ Len(q) = 1 /\ q[1] \in {":type", ":k", ":content"}
    \/ Len(q) = 2 /\ q[1] = ":k" /\ q[2] \notin {"0", "2", "-1", "+2"}
    \/ q \in QueryLines /\ c.raised # None

\* C21: in the interactive session every step leaves each setting at the
\* value of the most recent successful command for it: ":type a" sets the
\* mode to a and nothing else, ":k n" sets the result count to the integer n
\* and nothing else, ":content a" sets the flag (on exactly when a is "on" in
\* any case) and nothing else, and every other input, the rejected ones among
\* them, leaves all three settings unchanged; the loop ends only at :quit or
\* at Ctrl-C, never at a rejected input.
C21_SettingsFollowLastCommand ==
    [][LET q == session'.query
       IN  /\ IF Len(q) = 2 /\ q[1] = ":type"
              THEN Settings(session') =
                      <<q[2], session.top_k, session.show_content>>
              ELSE IF Len(q) = 2 /\ q[1] = ":k" /\ q[2] \in {"0", "2", "-1", "+2"}
              THEN Settings(session') =
                      <<session.query_type,
                        CASE q[2] = "0" -> 0 [] q[2] = "2" -> 2
                          [] q[2] = "-1" -> -1 [] q[2] = "+2" -> 2,
                        session.show_content>>
              ELSE IF Len(q) = 2 /\ q[1] = ":content"
              THEN Settings(session') =
                      <<session.query_type, session.top_k, q[2] \in {"on", "ON"}>>
              ELSE Settings(session') = Settings(session)
           /\ RejectedInput(q, call') => Settings(session') = Settings(session)
           /\ pc' = "exited" =>
                 \/ Len(q) >= 1 /\ q[1] = ":quit"
                 \/ session'.output = "Exiting"
           /\ (RejectedInput(q, call') /\ session'.output # "Exiting")
                 => pc' = "prompt"]_vars

\* A rejected ":k two" after the three settings were changed from their
\* start-up values: the settings still hold what the commands gave them.
C21_Witness ==
    /\ pc = "prompt"
    /\ session.query = <<":k", "two">>
    /\ session.output = "Error"
    /\ Settings(session) = <<"keyword", 2, TRUE>>
    /\ session.top_k # DefaultTopK

(***************************************************************************)
(* Claims about the graph (specification SpecBuild).                       *)
(***************************************************************************)
\* The positions of self.edges whose two endpoints are parsed nodes.
BothEndpointsParsed ==
    {i \in DOMAIN edges : edges[i][1] \in DOMAIN nodes /\ edges[i][2] \in DOMAIN nodes}

\* C22: in every graph returned by build_graph each edge's source and
\* destination index lies in [0, number of nodes), the edge-type list is as
\* long as the edge list, and the graph has as many edges as self.edges has
\* entries, repeated ones counted each time, with both endpoints parsed.
C22_GraphIndexInvariants ==
    pc \in {"built", "saved"} =>
        /\ \A i \in DOMAIN graph.edge_index :
              /\ graph.edge_index[i][1] \in 0..(Len(graph.x) - 1)
              /\ graph.edge_index[i][2] \in 0..(Len(graph.x) - 1)
        /\ Len(graph.edge_type) = Len(graph.edge_index)
        /\ Len(graph.edge_index) = Cardinality(BothEndpointsParsed)

\* A graph that holds the same typed edge twice, built from edges of which
\* some were dropped because an endpoint is no parsed node.
C22_Witness ==
    /\ pc = "built"
    /\ \E i, j \in DOMAIN graph.edge_index :
          /\ i < j
          /\ graph.edge_index[i] = graph.edge_index[j]
          /\ graph.edge_type[i] = graph.edge_type[j]
    /\ Len(edges) > Len(graph.edge_index)
    /\ Len(graph.x) >= 2

====
